---- MODULE Spec2Model ----
(***************************************************************************)
(* Model of the shardedchain core: the Merkle trie (package trie), the     *)
(* shard and shard manager (packages shard, state), the cross-shard proof  *)
(* protocol (package proof) and the tick scheduler (package sim).          *)
(*                                                                         *)
(* Byte slices are sequences of integers 0..255.  A nil slice that the     *)
(* code distinguishes from an empty one (Node.value) is NilBytes.          *)
(* A SHA-256 digest is modelled as an injective image of its input: the    *)
(* input bytes between the two markers -1 and -2, which no byte equals.    *)
(* A nil digest (the hash field of a node never hashed) is <<>>, so that   *)
(* writing it to a hasher writes nothing, as in Go.                        *)
(***************************************************************************)
EXTENDS Integers, Sequences, FiniteSets, TLC

VARIABLES
    trie,       \* SpecTrie: one *trie.Node tree under test
    trieOps,    \* SpecTrie: number of Insert calls made so far
    Shards,     \* ShardManager.Shards
    mu,         \* ShardManager.mu: [w |-> writer or NoTask, r |-> set of readers]
    panicked,   \* TRUE once a goroutine has panicked (index out of range, division by zero)
    mgrOps,     \* number of manager calls started so far (bound on the run)
    last,       \* Spec: the last completed manager call, its arguments, pre-state and result
    tpc,        \* SpecConc: program counter of every client task
    tloc,       \* SpecConc: local variables of every client task
    addr,       \* SpecConc: the address of each *shard.Shard of Shards, in order
    txQueue,    \* Scheduler.txQueue (buffered channel)
    cursor,     \* Scheduler.cursor
    sched,      \* the tick goroutine: its position and locals
    cfg,        \* Scheduler configuration: activeCount, the two thresholds; the workload
    toSubmit,   \* per producer: the transactions it has still to Submit
    submitted,  \* ghost: the transactions whose Submit has completed
    appliedLog, \* ghost: sequence of [tx, shard] for every ApplyTx the tick loop made
    cross       \* SpecCross: result of the last GenerateCrossProof / VerifyCrossProof

vars == <<trie, trieOps, Shards, mu, panicked, mgrOps, last, tpc, tloc, addr,
          txQueue, cursor, sched, cfg, toSubmit, submitted, appliedLog, cross>>

trieVars == <<trie, trieOps>>

concVars == <<tpc, tloc, addr>>

schedVars == <<txQueue, cursor, sched, cfg, toSubmit, submitted, appliedLog>>

-----------------------------------------------------------------------------
(* Byte strings and digests *)

NilBytes == <<-3>>

Sha256(input) == <<-1>> \o input \o <<-2>>

\* append([]byte(nil), b...): a copy; the copy of an empty slice is nil
CopyBytes(b) == IF b = NilBytes \/ b = <<>> THEN NilBytes ELSE b

Min(S) == CHOOSE x \in S : \A y \in S : x <= y

RECURSIVE SortInts(_)
SortInts(S) == IF S = {} THEN <<>> ELSE <<Min(S)>> \o SortInts(S \ {Min(S)})

IsPrefix(p, q) == Len(p) <= Len(q) /\ SubSeq(q, 1, Len(p)) = p

-----------------------------------------------------------------------------
(* package trie.  A tree of Nodes is a function from the path of each node  *)
(* (the edge labels from the root) to its value and cached hash fields.    *)

NewNodeRec == [value |-> NilBytes, hash |-> <<>>]

NewNode == (<<>> :> NewNodeRec)

Children(t, p) ==
    {q[Len(q)] : q \in {q \in DOMAIN t : Len(q) = Len(p) + 1 /\ IsPrefix(p, q)}}

RECURSIVE WriteChildren(_, _, _)
WriteChildren(t, p, keys) ==
    IF keys = <<>> THEN <<>>
    ELSE <<1, Head(keys)>> \o t[Append(p, Head(keys))].hash
             \o WriteChildren(t, p, Tail(keys))

ContentHash(t, p) ==
    Sha256((IF t[p].value # NilBytes THEN <<0>> \o t[p].value ELSE <<>>)
             \o WriteChildren(t, p, SortInts(Children(t, p))))

\* a hash computed once and never refreshed
computeHashOnce(t, p) ==
    IF t[p].hash # <<>> THEN t ELSE [t EXCEPT ![p].hash = ContentHash(t, p)]

computeHash(t, p) == [t EXCEPT ![p].hash = ContentHash(t, p)]

RECURSIVE InsertAt(_, _, _, _)
InsertAt(t, p, key, value) ==
    IF key = <<>>
    THEN computeHash([t EXCEPT ![p].value = value], p)
    ELSE LET c  == Append(p, Head(key))
             t1 == IF c \in DOMAIN t THEN t ELSE t @@ (c :> NewNodeRec)
         IN  computeHash(InsertAt(t1, c, Tail(key), value), p)

Insert(t, key, value) == InsertAt(t, <<>>, key, value)

RootHash(t) == t[<<>>].hash

\* the sibling map built at one depth of GetProof
SibMap(t, p, b) == [sb \in Children(t, p) \ {b} |-> t[Append(p, sb)].hash]

RECURSIVE ProofSteps(_, _, _)
ProofSteps(t, p, key) ==
    IF key = <<>> THEN [found |-> p \in DOMAIN t, steps |-> <<>>]
    ELSE IF p \notin DOMAIN t THEN [found |-> FALSE, steps |-> <<>>]
    ELSE LET rest == ProofSteps(t, Append(p, Head(key)), Tail(key))
         IN  [found |-> rest.found,
              steps |-> <<SibMap(t, p, Head(key))>> \o rest.steps]

GetProof(t, key) ==
    LET walk == ProofSteps(t, <<>>, key)
    IN  IF ~walk.found \/ t[key].value = NilBytes
        THEN [ok |-> FALSE, Value |-> NilBytes, Steps |-> <<>>]
        ELSE [ok |-> TRUE, Value |-> t[key].value, Steps |-> walk.steps]

RECURSIVE FoldLevel(_, _, _, _)
FoldLevel(ks, b, current, sibMap) ==
    IF ks = <<>> THEN <<>>
    ELSE <<1, Head(ks)>>
           \o (IF Head(ks) = b THEN current ELSE sibMap[Head(ks)])
           \o FoldLevel(Tail(ks), b, current, sibMap)

RECURSIVE Climb(_, _, _, _)
Climb(key, proof, i, current) ==
    IF i = 0 THEN current
    ELSE LET sibMap == proof.Steps[i]
             ks     == SortInts(DOMAIN sibMap \cup {key[i]})
         IN  Climb(key, proof, i - 1, Sha256(FoldLevel(ks, key[i], current, sibMap)))

VerifyProof(rootHash, key, proof) ==
    Climb(key, proof, Len(key), Sha256(<<0>> \o proof.Value)) = rootHash

\* the key/value pairs Traverse returns, each a copy
Traverse(t) ==
    {[Key |-> p, Value |-> CopyBytes(t[p].value)] : p \in {q \in DOMAIN t : t[q].value # NilBytes}}

-----------------------------------------------------------------------------
(* package shard *)

NewShard == [Tree |-> NewNode, Mutations |-> 0]

\* an Apply that counts the mutation and does not write
ApplyCountOnly(s, key, value) == [s EXCEPT !.Mutations = @ + 1]

Apply(s, key, value) ==
    [Tree |-> Insert(s.Tree, key, value), Mutations |-> s.Mutations + 1]

Root(s) == RootHash(s.Tree)

\* a range loop applying every pair of a Traverse result to one shard; the
\* pairs have pairwise distinct keys and the loop's order is Go's map order
RECURSIVE ApplyAll(_, _)
ApplyAll(s, kvs) ==
    IF kvs = {} THEN s
    ELSE LET kv == CHOOSE x \in kvs : TRUE
         IN  ApplyAll(Apply(s, kv.Key, kv.Value), kvs \ {kv})

-----------------------------------------------------------------------------
(* package state: routing.  A uint32 is the pair <<high 16 bits, low 16     *)
(* bits>>; int is 64 bits wide, so int(h.Sum32()) is never negative.       *)

RECURSIVE XorBits(_, _, _)
XorBits(a, b, k) ==
    IF k = 0 THEN 0
    ELSE (((a % 2) + (b % 2)) % 2) + 2 * XorBits(a \div 2, b \div 2, k - 1)

FnvOffset == <<33052, 40389>>   \* 0x811C9DC5

\* hash ^= b ; hash *= 16777619 (0x01000193 = 2^24 + 403), modulo 2^32
FnvStep(h, b) ==
    LET lo == (h[2] \div 256) * 256 + XorBits(h[2] % 256, b, 8)
        p  == lo * 403
    IN  <<(h[1] * 403 + (p \div 65536) + (lo % 256) * 256) % 65536, p % 65536>>

RECURSIVE Fnv32a(_, _)
Fnv32a(h, key) == IF key = <<>> THEN h ELSE Fnv32a(FnvStep(h, Head(key)), Tail(key))

\* int(h.Sum32()) % n, for n > 0
ModU32(h, n) == ((h[1] % n) * (65536 % n) + (h[2] % n)) % n

\* shardIndex for a collection of n shards; n = 0 is a division by zero
shardIndex(key, n) == ModU32(Fnv32a(FnvOffset, key), n)

-----------------------------------------------------------------------------
(* package state: statistics.  The variance is kept as the exact fraction   *)
(* VarNum / VarDen; a threshold is a fraction <<num, den>> with den > 0.    *)
(* The thresholds of the model are dyadic and every variance that equals   *)
(* one of them has a mean float64 represents exactly, so the comparisons   *)
(* agree with calcStats' float64 arithmetic.                               *)

RECURSIVE SumSeq(_)
SumSeq(data) == IF data = <<>> THEN 0 ELSE Head(data) + SumSeq(Tail(data))

Squares(data) == [i \in 1..Len(data) |-> data[i] * data[i]]

VarNum(data) == Len(data) * SumSeq(Squares(data)) - SumSeq(data) * SumSeq(data)

VarDen(data) == Len(data) * Len(data)

\* variance >= th: the split test with the comparison weakened
VarianceAtLeast(data, th) ==
    IF Len(data) = 0 THEN 0 >= th[1]
    ELSE VarNum(data) * th[2] >= th[1] * VarDen(data)

\* variance > th
VarianceAbove(data, th) ==
    IF Len(data) = 0 THEN 0 > th[1]
    ELSE VarNum(data) * th[2] > th[1] * VarDen(data)

\* variance < th
VarianceBelow(data, th) ==
    IF Len(data) = 0 THEN 0 < th[1]
    ELSE VarNum(data) * th[2] < th[1] * VarDen(data)

\* indices are 0-based as in the source; data[i + 1] is Go's data[i]
RECURSIVE MaxScan(_, _, _)
MaxScan(data, i, max) ==
    IF i >= Len(data) THEN max
    ELSE MaxScan(data, i + 1, IF data[i + 1] > data[max + 1] THEN i ELSE max)

indexOfMax(data) == MaxScan(data, 0, 0)

RECURSIVE MinScan(_, _, _, _)
MinScan(data, i, min1, min2) ==
    IF i >= Len(data) THEN <<min1, min2>>
    ELSE IF data[i + 1] < data[min1 + 1] THEN MinScan(data, i + 1, i, min1)
    ELSE IF data[i + 1] < data[min2 + 1] THEN MinScan(data, i + 1, min1, i)
    ELSE MinScan(data, i + 1, min1, min2)

\* needs Len(data) >= 2: data[1] is read first
twoMinIndices(data) ==
    IF data[2] < data[1] THEN MinScan(data, 2, 1, 0) ELSE MinScan(data, 2, 0, 1)

Stats(shards) == [i \in 1..Len(shards) |-> shards[i].Mutations]

Roots(shards) == [i \in 1..Len(shards) |-> Root(shards[i])]

-----------------------------------------------------------------------------
(* package state: split and merge.  Go's m.Shards[a:b] is SubSeq(a+1, b).  *)

LowHalf(kvs) == {kv \in kvs : Len(kv.Key) > 0 /\ kv.Key[1] < 128}

\* needs 0 <= idx < Len(shards)
splitShard(shards, idx) ==
    LET kvs == Traverse(shards[idx + 1].Tree)
        s1  == ApplyAll(NewShard, LowHalf(kvs))
        s2  == ApplyAll(NewShard, kvs \ LowHalf(kvs))
    IN  SubSeq(shards, 1, idx) \o <<s1, s2>> \o SubSeq(shards, idx + 2, Len(shards))

\* a merge that forgets to put the merged shard back
mergeShardsDropped(shards, a, b) ==
    LET i1 == IF b < a THEN b ELSE a
        i2 == IF b < a THEN a ELSE b
    IN  SubSeq(shards, 1, i1) \o SubSeq(shards, i2 + 2, Len(shards))

\* needs both indices in range
mergeShards(shards, a, b) ==
    LET i1 == IF b < a THEN b ELSE a
        i2 == IF b < a THEN a ELSE b
        merged == ApplyAll(ApplyAll(NewShard, Traverse(shards[i1 + 1].Tree)),
                           Traverse(shards[i2 + 1].Tree))
    IN  SubSeq(shards, 1, i1) \o <<merged>> \o SubSeq(shards, i2 + 2, Len(shards))

\* the decision of Rebalance and RebalanceWithProof from a statistics vector
\* and the number of shards read for the merge guard
Decide(stats, count, thS, thM) ==
    IF VarianceAbove(stats, thS)
    THEN [op |-> "split", affected |-> <<indexOfMax(stats)>>]
    ELSE IF VarianceBelow(stats, thM) /\ count > 1
    THEN [op |-> "merge", affected |-> twoMinIndices(stats)]
    ELSE [op |-> "none", affected |-> <<>>]

InRange(shards, idxs) == \A k \in 1..Len(idxs) : idxs[k] >= 0 /\ idxs[k] < Len(shards)

\* a decision that indexes outside the collection, or scans fewer than two
\* counters for a merge, panics
DecisionPanics(stats, count, thS, thM) ==
    \/ VarianceAbove(stats, thS) /\ Len(stats) = 0
    \/ ~VarianceAbove(stats, thS) /\ VarianceBelow(stats, thM) /\ count > 1
          /\ Len(stats) < 2

Perform(shards, d) ==
    IF d.op = "split" THEN splitShard(shards, d.affected[1])
    ELSE IF d.op = "merge" THEN mergeShards(shards, d.affected[1], d.affected[2])
    ELSE shards

\* RebalanceWithProof under the write lock: the new collection and the proof
RebalanceWithProof(shards, thS, thM) ==
    LET d    == Decide(Stats(shards), Len(shards), thS, thM)
        post == Perform(shards, d)
    IN  [shards |-> post,
         proof  |-> [PreRoots |-> Roots(shards), PostRoots |-> Roots(post),
                     Operation |-> d.op, ShardIndex |-> d.affected]]

-----------------------------------------------------------------------------
(* Bounds and input sets of the trie specification *)

MaxTrieOps == 4

TrieKeys == {<<>>, <<1>>, <<1, 2>>, <<128>>}

TrieValues == {NilBytes, <<>>, <<5>>}

NoTask == "none"

TrieIdle == trie = NewNode /\ trieOps = 0

\* the variables of the client tasks and of the scheduler, where neither runs
ConcIdle == tpc = <<>> /\ tloc = <<>> /\ addr = <<>>

SchedIdle ==
    /\ txQueue = <<>> /\ cursor = 0 /\ sched = <<>> /\ cfg = <<>>
    /\ toSubmit = <<>> /\ submitted = {} /\ appliedLog = <<>>

TrieInsert ==
    /\ trieOps < MaxTrieOps
    /\ \E key \in TrieKeys, value \in TrieValues :
          trie' = Insert(trie, key, value)
    /\ trieOps' = trieOps + 1
    /\ UNCHANGED <<Shards, mu, panicked, mgrOps, last, concVars, schedVars, cross>>

RestIdleForTrie ==
    /\ Shards = <<>> /\ mu = [w |-> NoTask, r |-> {}] /\ panicked = FALSE
    /\ mgrOps = 0 /\ last = [call |-> "none"] /\ ConcIdle /\ SchedIdle /\ cross = <<>>

InitTrie == TrieIdle /\ RestIdleForTrie

NextTrie == TrieInsert

SpecTrie == InitTrie /\ [][NextTrie]_vars

\* C9: after any sequence of Insert calls, every key that holds a value has a
\* proof that VerifyProof accepts against the current root hash.
C9_ProofRoundTrip ==
    \A key \in TrieKeys :
        GetProof(trie, key).ok =>
            VerifyProof(RootHash(trie), key, GetProof(trie, key))

-----------------------------------------------------------------------------
(* Spec: the shard manager driven by one caller at a time.  Every action   *)
(* is one complete public call.                                            *)

MaxInitShards == 3

MaxShards == 4

MaxMgrOps == 4

MgrKeys == {<<1>>, <<2>>, <<128>>}

MgrValues == {<<>>, <<5>>, <<6>>}

\* -1, 0, 0.5, 2.0 and 100, as fractions
Thresholds == {<<-1, 1>>, <<0, 1>>, <<1, 2>>, <<2, 1>>, <<100, 1>>}

NoProof == [PreRoots |-> <<>>, PostRoots |-> <<>>, Operation |-> "", ShardIndex |-> <<>>]

NoCall == [call |-> "none", pre |-> <<>>, proof |-> NoProof, key |-> <<>>,
           value |-> <<>>, idx |-> 0]

\* NewManager(numShards)
NewManager(numShards) == [i \in 1..numShards |-> NewShard]

MgrIdle ==
    /\ mu = [w |-> NoTask, r |-> {}] /\ panicked = FALSE /\ mgrOps = 0 /\ last = NoCall

RestIdleForMgr == TrieIdle /\ ConcIdle /\ SchedIdle /\ cross = <<>>

Init ==
    /\ \E numShards \in 0..MaxInitShards : Shards = NewManager(numShards)
    /\ MgrIdle /\ RestIdleForMgr

\* ApplyTx with no other task running: shardIndex, then Apply under the lock
ApplyTxWith(keys) ==
    /\ ~panicked /\ mgrOps < MaxMgrOps
    /\ \E key \in keys, value \in MgrValues :
          IF Len(Shards) = 0
          THEN /\ panicked' = TRUE
               /\ last' = [NoCall EXCEPT !.call = "ApplyTx panicked", !.pre = Shards]
               /\ UNCHANGED Shards
          ELSE LET idx == shardIndex(key, Len(Shards))
               IN  /\ Shards' = [Shards EXCEPT ![idx + 1] = Apply(@, key, value)]
                   /\ last' = [call |-> "ApplyTx", pre |-> Shards, proof |-> NoProof,
                               key |-> key, value |-> value, idx |-> idx]
                   /\ UNCHANGED panicked
    /\ mgrOps' = mgrOps + 1
    /\ UNCHANGED <<trieVars, mu, concVars, schedVars, cross>>

ApplyTxCall == ApplyTxWith(MgrKeys)

\* the model stops a run that would grow the collection beyond MaxShards
SplitFits(shards, thS) == VarianceAbove(Stats(shards), thS) => Len(shards) < MaxShards

RebalanceWithProofCall ==
    /\ ~panicked /\ mgrOps < MaxMgrOps
    /\ \E thS \in Thresholds, thM \in Thresholds :
          /\ SplitFits(Shards, thS)
          /\ IF DecisionPanics(Stats(Shards), Len(Shards), thS, thM)
             THEN /\ panicked' = TRUE
                  /\ last' = [NoCall EXCEPT !.call = "RebalanceWithProof panicked",
                                            !.pre = Shards]
                  /\ UNCHANGED Shards
             ELSE LET res == RebalanceWithProof(Shards, thS, thM)
                  IN  /\ Shards' = res.shards
                      /\ last' = [NoCall EXCEPT !.call = "RebalanceWithProof",
                                                !.pre = Shards, !.proof = res.proof]
                      /\ UNCHANGED panicked
    /\ mgrOps' = mgrOps + 1
    /\ UNCHANGED <<trieVars, mu, concVars, schedVars, cross>>

\* Rebalance with no other task running: CollectStats, the decision, and the
\* split or merge under the lock
RebalanceCall ==
    /\ ~panicked /\ mgrOps < MaxMgrOps
    /\ \E thS \in Thresholds, thM \in Thresholds :
          /\ SplitFits(Shards, thS)
          /\ IF DecisionPanics(Stats(Shards), Len(Shards), thS, thM)
             THEN /\ panicked' = TRUE
                  /\ last' = [NoCall EXCEPT !.call = "Rebalance panicked", !.pre = Shards]
                  /\ UNCHANGED Shards
             ELSE LET d == Decide(Stats(Shards), Len(Shards), thS, thM)
                  IN  /\ Shards' = Perform(Shards, d)
                      /\ last' = [NoCall EXCEPT !.call = "Rebalance", !.pre = Shards,
                                     !.proof = [NoProof EXCEPT !.Operation = d.op,
                                                               !.ShardIndex = d.affected]]
                      /\ UNCHANGED panicked
    /\ mgrOps' = mgrOps + 1
    /\ UNCHANGED <<trieVars, mu, concVars, schedVars, cross>>

Next == ApplyTxCall \/ RebalanceWithProofCall \/ RebalanceCall

Spec == Init /\ [][Next]_vars

\* the key/value pairs Traverse yields over a whole collection
AllPairs(shards) == UNION {Traverse(shards[i].Tree) : i \in 1..Len(shards)}

\* in how many shards Traverse yields the pair
PairCount(shards, kv) == Cardinality({i \in 1..Len(shards) : kv \in Traverse(shards[i].Tree)})

\* C1: one RebalanceWithProof call on a manager with at least one shard leaves
\* the key/value pairs recoverable by Traverse over all shards as they were:
\* none is lost, none is duplicated.
C1_RebalancePreservesPairs ==
    (last.call = "RebalanceWithProof" /\ Len(last.pre) >= 1) =>
        /\ AllPairs(Shards) = AllPairs(last.pre)
        /\ \A kv \in AllPairs(Shards) : PairCount(Shards, kv) <= PairCount(last.pre, kv)

MergeLow(l) == IF l.proof.ShardIndex[1] < l.proof.ShardIndex[2]
               THEN l.proof.ShardIndex[1] ELSE l.proof.ShardIndex[2]

MergeHigh(l) == IF l.proof.ShardIndex[1] < l.proof.ShardIndex[2]
                THEN l.proof.ShardIndex[2] ELSE l.proof.ShardIndex[1]

\* C2: a merge of shards i1 < i2 puts one shard holding the union of their
\* pairs at position i1, removes only position i2 and keeps every other shard,
\* those strictly between i1 and i2 included, in its relative order.
C2_MergeKeepsOtherShards ==
    (last.call \in {"RebalanceWithProof", "Rebalance"} /\ last.proof.Operation = "merge") =>
        LET i1 == MergeLow(last)
            i2 == MergeHigh(last)
        IN  /\ Len(Shards) = Len(last.pre) - 1
            /\ Traverse(Shards[i1 + 1].Tree)
                 = Traverse(last.pre[i1 + 1].Tree) \cup Traverse(last.pre[i2 + 1].Tree)
            /\ \A j \in 0..(Len(last.pre) - 1) :
                  /\ j < i1 => Shards[j + 1] = last.pre[j + 1]
                  /\ (i1 < j /\ j < i2) => Shards[j + 1] = last.pre[j + 1]
                  /\ j > i2 => Shards[j] = last.pre[j + 1]

-----------------------------------------------------------------------------
(* package proof: the cross-shard proof, called with no other task running. *)
(* getTrie is ShardManager.GetTrie, the indices are in range.              *)

\* GenerateCrossProof: the error ("" for nil), the CrossProof and the tries left behind
GenerateCrossProof(shards, srcShard, dstShard, keyFrom, keyTo, amount) ==
    LET getTrie(i) == shards[i + 1].Tree
        srcRoot  == RootHash(getTrie(srcShard))
        dstRoot  == RootHash(getTrie(dstShard))
        srcProof == GetProof(getTrie(srcShard), keyFrom)
        dstProof == GetProof(getTrie(dstShard), keyTo)
        sh1 == [shards EXCEPT ![srcShard + 1].Tree = Insert(@, keyFrom, amount)]
        sh2 == [sh1 EXCEPT ![dstShard + 1].Tree = Insert(@, keyTo, amount)]
        none == [PreSrcRoot |-> <<>>, PreDstRoot |-> <<>>, SrcProof |-> srcProof,
                 DstProof |-> dstProof, PostSrcRoot |-> <<>>, PostDstRoot |-> <<>>,
                 SrcKey |-> keyFrom, DstKey |-> keyTo]
    IN  IF ~srcProof.ok THEN [err |-> "src proof", cp |-> none, shards |-> shards]
        ELSE IF ~dstProof.ok THEN [err |-> "dst proof", cp |-> none, shards |-> shards]
        ELSE [err |-> "",
              cp  |-> [PreSrcRoot |-> srcRoot, PreDstRoot |-> dstRoot,
                       SrcProof |-> srcProof, DstProof |-> dstProof,
                       PostSrcRoot |-> RootHash(sh2[srcShard + 1].Tree),
                       PostDstRoot |-> RootHash(sh2[dstShard + 1].Tree),
                       SrcKey |-> keyFrom, DstKey |-> keyTo],
              shards |-> sh2]

\* VerifyCrossProof(trie.VerifyProof): the error, "" for nil
VerifyCrossProof(cp) ==
    IF ~VerifyProof(cp.PreSrcRoot, cp.SrcKey, cp.SrcProof) THEN "invalid source pre-proof"
    ELSE IF ~VerifyProof(cp.PreDstRoot, cp.DstKey, cp.DstProof) THEN "invalid dest pre-proof"
    ELSE IF cp.PreSrcRoot = cp.PostSrcRoot THEN "source root didn't change"
    ELSE IF cp.PreDstRoot = cp.PostDstRoot THEN "dest root didn't change"
    ELSE ""

MaxCrossShards == 2

CrossKeys == {<<1>>, <<1, 128>>, <<2>>}

NoCross == [called |-> FALSE, srcHad |-> FALSE, dstHad |-> FALSE, err |-> "",
            verify |-> "", src |-> 0, dst |-> 0, amount |-> <<>>, srcOld |-> <<>>,
            dstOld |-> <<>>, keyFrom |-> <<>>, keyTo |-> <<>>]

InitCross ==
    /\ \E numShards \in 1..MaxCrossShards : Shards = NewManager(numShards)
    /\ MgrIdle /\ TrieIdle /\ ConcIdle /\ SchedIdle /\ cross = NoCross

CrossApplyTx ==
    /\ ~cross.called
    /\ ApplyTxWith(CrossKeys)

\* GenerateCrossProof, then VerifyCrossProof on its result when it returned one
CrossProofCall ==
    /\ ~panicked /\ ~cross.called
    /\ \E srcShard \in 0..(Len(Shards) - 1), dstShard \in 0..(Len(Shards) - 1),
          keyFrom \in CrossKeys, keyTo \in CrossKeys, amount \in MgrValues :
          LET res == GenerateCrossProof(Shards, srcShard, dstShard, keyFrom, keyTo, amount)
              st  == Shards[srcShard + 1].Tree
              dt  == Shards[dstShard + 1].Tree
          IN  /\ Shards' = res.shards
              /\ cross' = [called |-> TRUE,
                           srcHad |-> keyFrom \in DOMAIN st /\ st[keyFrom].value # NilBytes,
                           dstHad |-> keyTo \in DOMAIN dt /\ dt[keyTo].value # NilBytes,
                           err |-> res.err,
                           verify |-> IF res.err = "" THEN VerifyCrossProof(res.cp)
                                      ELSE "not run",
                           src |-> srcShard, dst |-> dstShard, amount |-> amount,
                           srcOld |-> IF keyFrom \in DOMAIN st THEN st[keyFrom].value
                                      ELSE NilBytes,
                           dstOld |-> IF keyTo \in DOMAIN dt THEN dt[keyTo].value
                                      ELSE NilBytes,
                           keyFrom |-> keyFrom, keyTo |-> keyTo]
    /\ UNCHANGED <<trieVars, mu, panicked, mgrOps, last, concVars, schedVars>>

NextCross == CrossApplyTx \/ CrossProofCall

SpecCross == InitCross /\ [][NextCross]_vars

\* C10: for keys present in their tries and any amount, GenerateCrossProof
\* succeeds and VerifyCrossProof on its result returns no error.
C10_CrossProofVerifies ==
    (cross.called /\ cross.srcHad /\ cross.dstHad) =>
        (cross.err = "" /\ cross.verify = "")

-----------------------------------------------------------------------------
(* SpecConc: client tasks calling the manager concurrently.  A step is one  *)
(* lock operation, or the accesses made between two lock operations, or    *)
(* one access made with no lock held.  A GetTrie call (RLock, read the     *)
(* pointer, RUnlock) is one step; where its result is only read, the read  *)
(* is taken in the same step.  mu is the RWMutex: Lock needs no holder at  *)
(* all, RLock needs no writer.                                             *)

Tasks == {"t1", "t2"}

MaxConcOps == 3

MaxConcInitShards == 2

ConcKeys == {<<1>>, <<128>>}

ConcValues == {<<5>>, <<6>>}

\* (2.0, 0.5) as in main, (-1, 0) and (100, -1)
ConcThresholds == {<<<<2, 1>>, <<1, 2>>>>, <<<<-1, 1>>, <<0, 1>>>>, <<<<100, 1>>, <<-1, 1>>>>}

NoDecision == [op |-> "none", affected |-> <<>>]

NoCp == [PreSrcRoot |-> <<>>, PreDstRoot |-> <<>>, SrcProof |-> <<>>, DstProof |-> <<>>,
         PostSrcRoot |-> <<>>, PostDstRoot |-> <<>>]

Blank == [call |-> "", key |-> <<>>, keyTo |-> <<>>, value |-> <<>>, idx |-> 0,
          dst |-> 0, stats |-> <<>>, th |-> <<<<0, 1>>, <<0, 1>>>>, dec |-> NoDecision,
          pre |-> <<>>, preRoots |-> <<>>, proof |-> NoProof, ptr |-> 0, cp |-> NoCp]

Free == [w |-> NoTask, r |-> {}]

CanLock == mu = Free

CanRLock == mu.w = NoTask

InitConc ==
    /\ \E numShards \in 1..MaxConcInitShards :
          /\ Shards = NewManager(numShards)
          /\ addr = [i \in 1..numShards |-> i]
    /\ MgrIdle /\ TrieIdle /\ SchedIdle /\ cross = <<>>
    /\ tpc = [t \in Tasks |-> "idle"]
    /\ tloc = [t \in Tasks |-> Blank]

\* a task moves to pc with locals loc; nothing else changes
Goto(t, pc, loc) ==
    /\ tpc' = [tpc EXCEPT ![t] = pc]
    /\ tloc' = [tloc EXCEPT ![t] = loc]

Panic ==
    /\ panicked' = TRUE
    /\ UNCHANGED <<trieVars, Shards, mu, mgrOps, last, concVars, schedVars, cross>>

Begin(t, pc, loc) ==
    /\ ~panicked /\ tpc[t] = "idle" /\ mgrOps < MaxConcOps
    /\ Goto(t, pc, loc)
    /\ mgrOps' = mgrOps + 1
    /\ UNCHANGED <<trieVars, Shards, mu, panicked, last, addr, schedVars, cross>>

\* addresses for newly allocated shards
Used == {addr[i] : i \in 1..Len(addr)} \cup {tloc[t].ptr : t \in Tasks}

Fresh(used) == Min({a \in 1..(Cardinality(used) + 1) : a \notin used})

PerformAddr(d) ==
    LET a1 == Fresh(Used)
        a2 == Fresh(Used \cup {a1})
        lo == IF d.op = "merge" /\ d.affected[2] < d.affected[1]
              THEN d.affected[2] ELSE d.affected[1]
        hi == IF d.op = "merge" /\ d.affected[2] > d.affected[1]
              THEN d.affected[2] ELSE d.affected[1]
    IN  IF d.op = "split"
        THEN SubSeq(addr, 1, lo) \o <<a1, a2>> \o SubSeq(addr, lo + 2, Len(addr))
        ELSE IF d.op = "merge"
        THEN SubSeq(addr, 1, lo) \o <<a1>> \o SubSeq(addr, hi + 2, Len(addr))
        ELSE addr

(* ApplyTx *)

CallApplyTx(t) ==
    \E key \in ConcKeys, value \in ConcValues :
        Begin(t, "a_route", [Blank EXCEPT !.call = "ApplyTx", !.key = key, !.value = value])

\* idx := m.shardIndex(key), no lock held
ARoute(t) ==
    /\ ~panicked /\ tpc[t] = "a_route"
    /\ IF Len(Shards) = 0 THEN Panic
       ELSE /\ Goto(t, "a_lock", [tloc[t] EXCEPT !.idx = shardIndex(tloc[t].key, Len(Shards))])
            /\ UNCHANGED <<trieVars, Shards, mu, panicked, mgrOps, last, addr, schedVars, cross>>

ALock(t) ==
    /\ ~panicked /\ tpc[t] = "a_lock" /\ CanLock
    /\ mu' = [mu EXCEPT !.w = t]
    /\ Goto(t, "a_write", tloc[t])
    /\ UNCHANGED <<trieVars, Shards, panicked, mgrOps, last, addr, schedVars, cross>>

\* m.Shards[idx].Apply(key, value); m.mu.Unlock()
AWrite(t) ==
    /\ ~panicked /\ tpc[t] = "a_write"
    /\ IF tloc[t].idx >= Len(Shards) THEN Panic
       ELSE /\ Shards' = [Shards EXCEPT ![tloc[t].idx + 1] = Apply(@, tloc[t].key, tloc[t].value)]
            /\ mu' = Free
            /\ Goto(t, "idle", Blank)
            /\ UNCHANGED <<trieVars, panicked, mgrOps, last, addr, schedVars, cross>>

(* Rebalance *)

CallRebalance(t) ==
    \E th \in ConcThresholds :
        Begin(t, "r_rlock", [Blank EXCEPT !.call = "Rebalance", !.th = th])

RRLock(t) ==
    /\ ~panicked /\ tpc[t] = "r_rlock" /\ CanRLock
    /\ mu' = [mu EXCEPT !.r = @ \cup {t}]
    /\ Goto(t, "r_stats", tloc[t])
    /\ UNCHANGED <<trieVars, Shards, panicked, mgrOps, last, addr, schedVars, cross>>

\* the body of CollectStats and its RUnlock
RStats(t) ==
    /\ ~panicked /\ tpc[t] = "r_stats"
    /\ mu' = [mu EXCEPT !.r = @ \ {t}]
    /\ Goto(t, "r_decide", [tloc[t] EXCEPT !.stats = Stats(Shards)])
    /\ UNCHANGED <<trieVars, Shards, panicked, mgrOps, last, addr, schedVars, cross>>

\* calcStats and the two tests; len(m.Shards) is read with no lock held
RDecide(t) ==
    /\ ~panicked /\ tpc[t] = "r_decide"
    /\ LET st == tloc[t].stats
           thS == tloc[t].th[1]
           thM == tloc[t].th[2]
       IN  IF DecisionPanics(st, Len(Shards), thS, thM) /\ ~VarianceAbove(st, thS)
           THEN Panic
           ELSE LET d == IF VarianceAbove(st, thS)
                         THEN [op |-> "split", affected |-> <<indexOfMax(st)>>]
                         ELSE Decide(st, Len(Shards), thS, thM)
                IN  /\ IF d.op = "none" THEN Goto(t, "idle", Blank)
                       ELSE Goto(t, "r_lock", [tloc[t] EXCEPT !.dec = d])
                    /\ UNCHANGED <<trieVars, Shards, mu, panicked, mgrOps, last, addr,
                                   schedVars, cross>>

RLockW(t) ==
    /\ ~panicked /\ tpc[t] = "r_lock" /\ CanLock
    /\ mu' = [mu EXCEPT !.w = t]
    /\ Goto(t, "r_mutate", tloc[t])
    /\ UNCHANGED <<trieVars, Shards, panicked, mgrOps, last, addr, schedVars, cross>>

\* m.splitShard(idx) or m.mergeShards(i1, i2), then m.mu.Unlock()
RMutate(t) ==
    /\ ~panicked /\ tpc[t] = "r_mutate"
    /\ IF ~InRange(Shards, tloc[t].dec.affected) THEN Panic
       ELSE /\ tloc[t].dec.op = "split" => Len(Shards) < MaxShards
            /\ Shards' = Perform(Shards, tloc[t].dec)
            /\ addr' = PerformAddr(tloc[t].dec)
            /\ mu' = Free
            /\ tpc' = [tpc EXCEPT ![t] = "idle"]
            /\ tloc' = [tloc EXCEPT ![t] = Blank]
            /\ UNCHANGED <<trieVars, panicked, mgrOps, last, schedVars, cross>>

(* RebalanceWithProof *)

CallRebalanceWithProof(t) ==
    \E th \in ConcThresholds :
        Begin(t, "w_lock", [Blank EXCEPT !.call = "RebalanceWithProof", !.th = th])

WLock(t) ==
    /\ ~panicked /\ tpc[t] = "w_lock" /\ CanLock
    /\ mu' = [mu EXCEPT !.w = t]
    /\ Goto(t, "w_pre", tloc[t])
    /\ UNCHANGED <<trieVars, Shards, panicked, mgrOps, last, addr, schedVars, cross>>

\* the loop taking pre-roots and stats; pre is the collection it saw (ghost)
WPre(t) ==
    /\ ~panicked /\ tpc[t] = "w_pre"
    /\ Goto(t, "w_mutate", [tloc[t] EXCEPT !.preRoots = Roots(Shards),
                                           !.stats = Stats(Shards), !.pre = Shards])
    /\ UNCHANGED <<trieVars, Shards, mu, panicked, mgrOps, last, addr, schedVars, cross>>

\* calcStats, the two tests and the split or merge
WMutate(t) ==
    /\ ~panicked /\ tpc[t] = "w_mutate"
    /\ LET st == tloc[t].stats
           thS == tloc[t].th[1]
           thM == tloc[t].th[2]
       IN  IF DecisionPanics(st, Len(Shards), thS, thM) THEN Panic
           ELSE LET d == Decide(st, Len(Shards), thS, thM)
                IN  /\ d.op = "split" => Len(Shards) < MaxShards
                    /\ Shards' = Perform(Shards, d)
                    /\ addr' = PerformAddr(d)
                    /\ tpc' = [tpc EXCEPT ![t] = "w_post"]
                    /\ tloc' = [tloc EXCEPT ![t].dec = d]
                    /\ UNCHANGED <<trieVars, mu, panicked, mgrOps, last, schedVars, cross>>

\* the loop taking post-roots, the return value and the deferred Unlock
WPost(t) ==
    /\ ~panicked /\ tpc[t] = "w_post"
    /\ mu' = Free
    /\ Goto(t, "w_ret", [tloc[t] EXCEPT !.proof =
            [PreRoots |-> tloc[t].preRoots, PostRoots |-> Roots(Shards),
             Operation |-> tloc[t].dec.op, ShardIndex |-> tloc[t].dec.affected]])
    /\ UNCHANGED <<trieVars, Shards, panicked, mgrOps, last, addr, schedVars, cross>>

\* the caller drops the proof
WRet(t) ==
    /\ ~panicked /\ tpc[t] = "w_ret"
    /\ Goto(t, "idle", Blank)
    /\ UNCHANGED <<trieVars, Shards, mu, panicked, mgrOps, last, addr, schedVars, cross>>

(* GenerateCrossProof(srcShard, dstShard, keyFrom, keyTo, amount, m.GetTrie) *)
(* locals: idx is srcShard, dst is dstShard, key is keyFrom, value is amount *)

CallGenerateCrossProof(t) ==
    \E srcShard \in 0..(Len(Shards) - 1), dstShard \in 0..(Len(Shards) - 1),
       keyFrom \in ConcKeys, keyTo \in ConcKeys, amount \in ConcValues :
        Begin(t, "g_srcRoot", [Blank EXCEPT !.call = "GenerateCrossProof", !.idx = srcShard,
                                            !.dst = dstShard, !.key = keyFrom,
                                            !.keyTo = keyTo, !.value = amount])

\* one GetTrie(i) whose result is read at once: next position and locals from the tree
GetTrieRead(t, pc, i, next, loc(_)) ==
    /\ ~panicked /\ tpc[t] = pc /\ CanRLock
    /\ IF i >= Len(Shards) THEN Panic
       ELSE /\ Goto(t, next, loc(Shards[i + 1].Tree))
            /\ UNCHANGED <<trieVars, Shards, mu, panicked, mgrOps, last, addr, schedVars, cross>>

GSrcRoot(t) ==
    LET loc(tree) == [tloc[t] EXCEPT !.cp.PreSrcRoot = RootHash(tree)]
    IN  GetTrieRead(t, "g_srcRoot", tloc[t].idx, "g_dstRoot", loc)

GDstRoot(t) ==
    LET loc(tree) == [tloc[t] EXCEPT !.cp.PreDstRoot = RootHash(tree)]
    IN  GetTrieRead(t, "g_dstRoot", tloc[t].dst, "g_srcProof", loc)

GSrcProof(t) ==
    /\ ~panicked /\ tpc[t] = "g_srcProof" /\ CanRLock
    /\ IF tloc[t].idx >= Len(Shards) THEN Panic
       ELSE LET pr == GetProof(Shards[tloc[t].idx + 1].Tree, tloc[t].key)
            IN  /\ IF pr.ok THEN Goto(t, "g_dstProof", [tloc[t] EXCEPT !.cp.SrcProof = pr])
                   ELSE Goto(t, "idle", Blank)
                /\ UNCHANGED <<trieVars, Shards, mu, panicked, mgrOps, last, addr,
                               schedVars, cross>>

GDstProof(t) ==
    /\ ~panicked /\ tpc[t] = "g_dstProof" /\ CanRLock
    /\ IF tloc[t].dst >= Len(Shards) THEN Panic
       ELSE LET pr == GetProof(Shards[tloc[t].dst + 1].Tree, tloc[t].keyTo)
            IN  /\ IF pr.ok THEN Goto(t, "g_getSrc", [tloc[t] EXCEPT !.cp.DstProof = pr])
                   ELSE Goto(t, "idle", Blank)
                /\ UNCHANGED <<trieVars, Shards, mu, panicked, mgrOps, last, addr,
                               schedVars, cross>>

\* getTrie(i) before an Insert: the pointer it returns
GetTriePtr(t, pc, i, next) ==
    /\ ~panicked /\ tpc[t] = pc /\ CanRLock
    /\ IF i >= Len(Shards) THEN Panic
       ELSE /\ Goto(t, next, [tloc[t] EXCEPT !.ptr = addr[i + 1]])
            /\ UNCHANGED <<trieVars, Shards, mu, panicked, mgrOps, last, addr, schedVars, cross>>

\* .Insert(key, amount) on the tree the pointer names, no lock held; a tree no
\* longer in the collection is written with no further effect
InsertVia(t, pc, key, next) ==
    /\ ~panicked /\ tpc[t] = pc
    /\ Shards' = [i \in 1..Len(Shards) |->
                     IF addr[i] = tloc[t].ptr
                     THEN [Shards[i] EXCEPT !.Tree = Insert(@, key, tloc[t].value)]
                     ELSE Shards[i]]
    /\ Goto(t, next, [tloc[t] EXCEPT !.ptr = 0])
    /\ UNCHANGED <<trieVars, mu, panicked, mgrOps, last, addr, schedVars, cross>>

GGetSrc(t) == GetTriePtr(t, "g_getSrc", tloc[t].idx, "g_insSrc")

GInsSrc(t) == InsertVia(t, "g_insSrc", tloc[t].key, "g_getDst")

GGetDst(t) == GetTriePtr(t, "g_getDst", tloc[t].dst, "g_insDst")

GInsDst(t) == InsertVia(t, "g_insDst", tloc[t].keyTo, "g_newSrc")

GNewSrc(t) ==
    LET loc(tree) == [tloc[t] EXCEPT !.cp.PostSrcRoot = RootHash(tree)]
    IN  GetTrieRead(t, "g_newSrc", tloc[t].idx, "g_newDst", loc)

\* the last read; the CrossProof is returned and the caller drops it
GNewDst(t) ==
    LET loc(tree) == Blank
    IN  GetTrieRead(t, "g_newDst", tloc[t].dst, "idle", loc)

(* ShardCount, ShardIndex, ShardRoots, CollectStats: a read under RLock *)

CallRead(t) == Begin(t, "q_rlock", [Blank EXCEPT !.call = "Read"])

QRLock(t) ==
    /\ ~panicked /\ tpc[t] = "q_rlock" /\ CanRLock
    /\ mu' = [mu EXCEPT !.r = @ \cup {t}]
    /\ Goto(t, "q_read", tloc[t])
    /\ UNCHANGED <<trieVars, Shards, panicked, mgrOps, last, addr, schedVars, cross>>

QRead(t) ==
    /\ ~panicked /\ tpc[t] = "q_read"
    /\ mu' = [mu EXCEPT !.r = @ \ {t}]
    /\ Goto(t, "idle", Blank)
    /\ UNCHANGED <<trieVars, Shards, panicked, mgrOps, last, addr, schedVars, cross>>

NextConc ==
    \E t \in Tasks :
        \/ CallApplyTx(t) \/ ARoute(t) \/ ALock(t) \/ AWrite(t)
        \/ CallRebalance(t) \/ RRLock(t) \/ RStats(t) \/ RDecide(t) \/ RLockW(t) \/ RMutate(t)
        \/ CallRebalanceWithProof(t) \/ WLock(t) \/ WPre(t) \/ WMutate(t) \/ WPost(t) \/ WRet(t)
        \/ CallGenerateCrossProof(t) \/ GSrcRoot(t) \/ GDstRoot(t) \/ GSrcProof(t)
        \/ GDstProof(t) \/ GGetSrc(t) \/ GInsSrc(t) \/ GGetDst(t) \/ GInsDst(t)
        \/ GNewSrc(t) \/ GNewDst(t)
        \/ CallRead(t) \/ QRLock(t) \/ QRead(t)

SpecConc == InitConc /\ [][NextConc]_vars

\* C6: the PostRoots of every RebalanceProof are the roots of the collection
\* seen at the pre-snapshot after the chosen operation and nothing else, so
\* they equal PreRoots when the operation is none.
C6_TrueBeforeAfterPair ==
    \A t \in Tasks :
        tpc[t] = "w_ret" =>
            /\ tloc[t].proof.PostRoots = Roots(Perform(tloc[t].pre, tloc[t].dec))
            /\ tloc[t].proof.Operation = "none" =>
                   tloc[t].proof.PostRoots = tloc[t].proof.PreRoots

\* C7: when ApplyTx writes, the index it uses is in range and is the one
\* shardIndex selects for the collection as it is at the write.
C7_ApplyTxRoutesAtWrite ==
    \A t \in Tasks :
        tpc[t] = "a_write" =>
            /\ tloc[t].idx < Len(Shards)
            /\ tloc[t].idx = shardIndex(tloc[t].key, Len(Shards))

\* what the next step of a task reads and writes: 0 is the collection
\* (m.Shards), a positive number the shard at that address
AllShards == {addr[i] : i \in 1..Len(addr)}

Writes(t) ==
    IF tpc[t] = "a_write" /\ tloc[t].idx < Len(Shards) THEN {addr[tloc[t].idx + 1]}
    ELSE IF tpc[t] = "r_mutate" THEN {0}
    ELSE IF tpc[t] = "w_mutate"
            /\ Decide(tloc[t].stats, Len(Shards), tloc[t].th[1], tloc[t].th[2]).op # "none"
    THEN {0}
    ELSE IF tpc[t] \in {"g_insSrc", "g_insDst"} THEN {tloc[t].ptr}
    ELSE {}

Reads(t) ==
    IF tpc[t] \in {"a_route", "a_write", "r_decide"} THEN {0}
    ELSE IF tpc[t] \in {"r_stats", "q_read", "r_mutate", "w_pre", "w_mutate", "w_post"}
    THEN {0} \cup AllShards
    ELSE {}

\* C8: in no reachable state is one task about to mutate a trie or the
\* collection while another task is about to read or mutate the same object.
C8_NoConflictingAccess ==
    \A t1 \in Tasks : \A t2 \in Tasks \ {t1} :
        Writes(t1) \cap (Reads(t2) \cup Writes(t2)) = {}

-----------------------------------------------------------------------------
(* The scheduler: one tick goroutine and producers on a bounded channel *)

\* capacity of txQueue, standing for make(chan Transaction, 1000)
QueueCap == 2

\* number of transactions the producers submit in all
MaxTx == 3

MaxSchedInitShards == 3

Producers == {"p1", "p2"}

SchedKeys == {<<1>>, <<128>>}

ActiveCounts == {1, 2}

\* (splitThreshold, mergeThreshold): main's 2.0 and 0.5, a pair that never
\* rebalances, and a pair that splits at every tick
MainThresholds == <<<<2, 1>>, <<1, 2>>>>

FairThresholds == {MainThresholds, <<<<100, 1>>, <<-1, 1>>>>}

SchedThresholds == FairThresholds \cup {<<<<-1, 1>>, <<0, 1>>>>}

\* Transaction{Key, Value}; the value names the transaction
Transaction(key, id) == [Key |-> key, Value |-> <<id>>]

NoTx == [Key |-> <<>>, Value |-> <<>>]

\* the tick goroutine waiting on ticker.C.  requeued, snapshot and drained are
\* ghosts: whether a re-send has happened, the queue as it was when n was
\* taken, and the transactions received since
SchedWait == [pc |-> "wait", total |-> 0, active |-> {}, n |-> 0, i |-> 0,
              tx |-> NoTx, requeued |-> FALSE, snapshot |-> <<>>, drained |-> <<>>]

\* the transactions a producer will submit, in its order: producer p1 has
\* the odd-numbered ones, p2 the even-numbered ones
Workload(txs, p) ==
    LET Mine(k) == IF p = "p1" THEN k % 2 = 1 ELSE k % 2 = 0
        F[k \in 0..MaxTx] ==
            IF k = 0 THEN <<>>
            ELSE IF Mine(k) THEN Append(F[k - 1], txs[k]) ELSE F[k - 1]
    IN  F[MaxTx]

\* NewManager, NewScheduler and the producers before their first Submit
InitSchedWith(ths) ==
    /\ \E numShards \in 0..MaxSchedInitShards, ac \in ActiveCounts, th \in ths,
          keys \in [1..MaxTx -> SchedKeys] :
          LET txs == [k \in 1..MaxTx |-> Transaction(keys[k], k)]
          IN  /\ Shards = NewManager(numShards)
              /\ cfg = [activeCount |-> ac, th |-> th, txs |-> txs]
              /\ toSubmit = [p \in Producers |-> Workload(txs, p)]
    /\ txQueue = <<>> /\ cursor = 0 /\ sched = SchedWait
    /\ submitted = {} /\ appliedLog = <<>>
    /\ MgrIdle /\ TrieIdle /\ ConcIdle /\ cross = <<>>

InitSched == InitSchedWith(SchedThresholds)

InitSchedFair == InitSchedWith(FairThresholds)

SchedRest == <<trieVars, mu, mgrOps, last, concVars, cfg, cross>>

\* Submit: the send blocks while the channel is full
Submit(p) ==
    /\ toSubmit[p] # <<>>
    /\ Len(txQueue) < QueueCap
    /\ txQueue' = Append(txQueue, Head(toSubmit[p]))
    /\ toSubmit' = [toSubmit EXCEPT ![p] = Tail(@)]
    /\ submitted' = submitted \cup {Head(toSubmit[p])}
    /\ UNCHANGED <<Shards, panicked, cursor, sched, appliedLog, SchedRest>>

\* a window that makes every shard active
ActiveWindowAll(cur, activeCount, total) == 0..(total - 1)

\* the active window: activeCount indices from the cursor, modulo total
ActiveWindow(cur, activeCount, total) ==
    {(cur + i) % total : i \in 0..(activeCount - 1)}

\* a tick arrives: ShardCount, the total == 0 test and the active window
Tick ==
    /\ ~panicked /\ sched.pc = "wait"
    /\ sched' = IF Len(Shards) = 0 THEN sched
                ELSE [sched EXCEPT !.pc = "snap", !.total = Len(Shards),
                         !.active = ActiveWindow(cursor, cfg.activeCount, Len(Shards))]
    /\ UNCHANGED <<Shards, panicked, txQueue, cursor, toSubmit, submitted,
                   appliedLog, SchedRest>>

\* n := len(s.txQueue)
Snap ==
    /\ ~panicked /\ sched.pc = "snap"
    /\ sched' = [sched EXCEPT !.pc = "loop", !.n = Len(txQueue), !.i = 0,
                              !.snapshot = txQueue, !.drained = <<>>]
    /\ UNCHANGED <<Shards, panicked, txQueue, cursor, toSubmit, submitted,
                   appliedLog, SchedRest>>

\* tx := <-s.txQueue
Recv ==
    /\ ~panicked /\ sched.pc = "loop" /\ sched.i < sched.n
    /\ txQueue # <<>>
    /\ sched' = [sched EXCEPT !.pc = "route", !.tx = Head(txQueue),
                              !.drained = Append(@, Head(txQueue))]
    /\ txQueue' = Tail(txQueue)
    /\ UNCHANGED <<Shards, panicked, cursor, toSubmit, submitted, appliedLog, SchedRest>>

\* s.txQueue <- tx, written so that the send can be replaced by a lossy one
RequeueDrop(queue, tx) == queue

\* a re-send that puts the transaction back at the head of the queue
RequeueFront(queue, tx) == <<tx>> \o queue

Requeue(queue, tx) == Append(queue, tx)

\* ShardIndex, the active[shardIdx] test and, for an active shard, ApplyTx
Route ==
    /\ ~panicked /\ sched.pc = "route"
    /\ LET shardIdx == shardIndex(sched.tx.Key, Len(Shards))
       IN  IF shardIdx \in sched.active
           THEN /\ Shards' = [Shards EXCEPT
                                 ![shardIdx + 1] = Apply(@, sched.tx.Key, sched.tx.Value)]
                /\ appliedLog' = Append(appliedLog, [tx |-> sched.tx, shard |-> shardIdx])
                /\ sched' = [sched EXCEPT !.pc = "loop", !.i = @ + 1, !.tx = NoTx]
           ELSE /\ sched' = [sched EXCEPT !.pc = "resend"]
                /\ UNCHANGED <<Shards, appliedLog>>
    /\ UNCHANGED <<panicked, txQueue, cursor, toSubmit, submitted, SchedRest>>

\* s.txQueue <- tx by the tick goroutine: the send blocks while the channel is full
Resend ==
    /\ ~panicked /\ sched.pc = "resend"
    /\ Len(txQueue) < QueueCap
    /\ txQueue' = Requeue(txQueue, sched.tx)
    /\ sched' = [sched EXCEPT !.pc = "loop", !.i = @ + 1, !.tx = NoTx, !.requeued = TRUE]
    /\ UNCHANGED <<Shards, panicked, cursor, toSubmit, submitted, appliedLog, SchedRest>>

\* the loop has ended: RebalanceWithProof, then the cursor moves on
TickRebalance ==
    /\ ~panicked /\ sched.pc = "loop" /\ sched.i >= sched.n
    /\ SplitFits(Shards, cfg.th[1])
    /\ IF DecisionPanics(Stats(Shards), Len(Shards), cfg.th[1], cfg.th[2])
       THEN /\ panicked' = TRUE
            /\ UNCHANGED <<Shards, cursor, sched>>
       ELSE /\ Shards' = RebalanceWithProof(Shards, cfg.th[1], cfg.th[2]).shards
            /\ cursor' = (cursor + cfg.activeCount) % sched.total
            /\ sched' = [sched EXCEPT !.pc = "wait", !.snapshot = <<>>, !.drained = <<>>]
            /\ UNCHANGED panicked
    /\ UNCHANGED <<txQueue, toSubmit, submitted, appliedLog, SchedRest>>

\* the steps of the tick goroutine up to the end of the loop
LoopStep == Tick \/ Snap \/ Recv \/ Route \/ Resend

\* TickRebalance can be taken exactly in these states, and it always changes
\* sched or panicked
RebalanceEnabled ==
    ~panicked /\ sched.pc = "loop" /\ sched.i >= sched.n /\ SplitFits(Shards, cfg.th[1])

NextSched ==
    \/ \E p \in Producers : Submit(p)
    \/ Tick
    \/ Snap
    \/ Recv
    \/ Route
    \/ Resend
    \/ TickRebalance

SpecSched == InitSched /\ [][NextSched]_vars

\* the ticker keeps firing and every goroutine that can run does run; the
\* second conjunct is weak fairness of TickRebalance with its enabling
\* condition written out
SpecSchedFair ==
    /\ InitSchedFair /\ [][NextSched]_vars
    /\ WF_vars(LoopStep)
    /\ ([]<>~RebalanceEnabled \/ []<><<TickRebalance>>_vars)
    /\ \A p \in Producers : WF_vars(Submit(p))

CountIn(seq, x) == Cardinality({k \in 1..Len(seq) : seq[k] = x})

Applied(tx) == Cardinality({k \in 1..Len(appliedLog) : appliedLog[k].tx = tx})

\* the transaction the tick loop has received and neither applied nor sent back
Held(tx) == IF sched.pc \in {"route", "resend"} /\ sched.tx = tx THEN 1 ELSE 0

\* C3: every submitted transaction is pending exactly once (in the queue, or
\* in the hand of the tick loop between its receive and its apply or re-send)
\* or has been applied exactly once, never both; what is pending or applied
\* is a transaction as it was submitted, key and value unchanged.
C3_NeverDroppedNorDuplicated ==
    /\ \A tx \in submitted : CountIn(txQueue, tx) + Held(tx) + Applied(tx) = 1
    /\ \A k \in 1..Len(txQueue) : txQueue[k] \in submitted
    /\ \A k \in 1..Len(appliedLog) : appliedLog[k].tx \in submitted
    /\ submitted \subseteq {cfg.txs[k] : k \in 1..MaxTx}

\* a transaction has been sent back to the queue and another has been applied
C3_Witness ==
    /\ sched.requeued /\ sched.pc = "loop"
    /\ Len(appliedLog) >= 1
    /\ \E tx \in submitted : CountIn(txQueue, tx) = 1

AllApplied == \A k \in 1..MaxTx : Applied(cfg.txs[k]) = 1

\* C4: with at least one active shard and more shards than activeCount, every
\* transaction of the finite workload is eventually applied and the queue
\* eventually becomes empty.
C4_EventuallyAllApplied ==
    (cfg.activeCount >= 1 /\ Len(Shards) > cfg.activeCount)
        => <>(AllApplied /\ txQueue = <<>>)

\* C5: every tick that starts runs to completion: the tick goroutine comes
\* back to waiting for the next tick.
C5_TickRunsToCompletion == (sched.pc # "wait") ~> (sched.pc = "wait")

\* the bound on the number of shards never holds back a tick of SpecSchedFair
SplitAlwaysFits ==
    (sched.pc = "loop" /\ sched.i >= sched.n) => SplitFits(Shards, cfg.th[1])

-----------------------------------------------------------------------------
(* The rebalance decision as a function of the counters and the thresholds *)

\* longest vector of counters
MaxStatsLen == 4

CounterValues == {0, 1, 10, 40, 50}

\* -1, 0, 0.1, 0.5, 2.0 and 1000
DecideThresholds == {<<-1, 1>>, <<0, 1>>, <<1, 10>>, <<1, 2>>, <<2, 1>>, <<1000, 1>>}

StatsVectors == UNION {[1..n -> CounterValues] : n \in 0..MaxStatsLen}

NoInput == [call |-> "input", stats |-> <<>>, th |-> <<<<0, 1>>, <<0, 1>>>>,
            dec |-> [op |-> "", affected |-> <<>>]]

\* a manager whose shards carry the counters stats, and the two thresholds
InitDecide ==
    /\ \E stats \in StatsVectors, thS \in DecideThresholds, thM \in DecideThresholds :
          last = [NoInput EXCEPT !.stats = stats, !.th = <<thS, thM>>]
    /\ Shards = <<>> /\ mu = [w |-> NoTask, r |-> {}] /\ panicked = FALSE /\ mgrOps = 0
    /\ TrieIdle /\ ConcIdle /\ SchedIdle /\ cross = <<>>

\* the decision part of RebalanceWithProof: calcStats, the two tests and the
\* choice of the affected indices
DecideCall ==
    /\ ~panicked /\ last.call = "input"
    /\ IF DecisionPanics(last.stats, Len(last.stats), last.th[1], last.th[2])
       THEN /\ panicked' = TRUE
            /\ last' = [last EXCEPT !.call = "panic"]
       ELSE /\ last' = [last EXCEPT !.call = "RebalanceWithProof",
                           !.dec = Decide(last.stats, Len(last.stats),
                                          last.th[1], last.th[2])]
            /\ UNCHANGED panicked
    /\ UNCHANGED <<trieVars, Shards, mu, mgrOps, concVars, schedVars, cross>>

NextDecide == DecideCall

SpecDecide == InitDecide /\ [][NextDecide]_vars

\* the reference decision.  The population variance of data is
\* (sum of (n*x - S)^2) / n^3 for n counters of sum S.
RefDevSquares(data) ==
    [i \in 1..Len(data) |->
        (Len(data) * data[i] - SumSeq(data)) * (Len(data) * data[i] - SumSeq(data))]

RefVarianceExceeds(data, th) ==
    SumSeq(RefDevSquares(data)) * th[2] > th[1] * Len(data) * Len(data) * Len(data)

RefVarianceBelow(data, th) ==
    SumSeq(RefDevSquares(data)) * th[2] < th[1] * Len(data) * Len(data) * Len(data)

\* leftmost position (0-based) of the largest counter
RefLeftmostMax(data) ==
    CHOOSE i \in 0..(Len(data) - 1) :
        \A j \in 0..(Len(data) - 1) :
            data[j + 1] <= data[i + 1] /\ (j < i => data[j + 1] < data[i + 1])

\* leftmost position of the smallest counter among the positions in S
RefLeftmostMin(data, S) ==
    CHOOSE i \in S :
        \A j \in S : data[i + 1] <= data[j + 1] /\ (j < i => data[j + 1] > data[i + 1])

RefDecision(data, thS, thM) ==
    IF RefVarianceExceeds(data, thS)
    THEN [op |-> "split", affected |-> <<RefLeftmostMax(data)>>]
    ELSE IF RefVarianceBelow(data, thM) /\ Len(data) > 1
    THEN LET all == 0..(Len(data) - 1)
             m1  == RefLeftmostMin(data, all)
         IN  [op |-> "merge", affected |-> <<m1, RefLeftmostMin(data, all \ {m1})>>]
    ELSE [op |-> "none", affected |-> <<>>]

\* C11: the operation and the affected indices RebalanceWithProof reports are
\* those of the reference decision: split the leftmost maximum if the variance
\* exceeds splitThreshold, else merge the two leftmost lowest counters if the
\* variance is below mergeThreshold and there is more than one shard, else none.
C11_DecisionIsReference ==
    last.call = "RebalanceWithProof" =>
        last.dec = RefDecision(last.stats, last.th[1], last.th[2])

\* [10,10,10,40] with splitThreshold 2.0 has been decided: split of index 3
C11_Witness ==
    /\ last.call = "RebalanceWithProof"
    /\ last.stats = <<10, 10, 10, 40>> /\ last.th[1] = <<2, 1>>
    /\ last.dec = [op |-> "split", affected |-> <<3>>]

-----------------------------------------------------------------------------
(* Frame of a split *)

\* C12: a split of shard idx leaves two shards at idx and idx+1 that hold the
\* pairs of the old shard, each pair in exactly one of them (at idx when the
\* first byte of the key has its high bit clear, at idx+1 otherwise, the empty
\* key included); the shards before idx keep position and content, the shards
\* after idx keep their content one position up; the count grows by one.
C12_SplitFrame ==
    (last.call \in {"RebalanceWithProof", "Rebalance"} /\ last.proof.Operation = "split") =>
        LET idx == last.proof.ShardIndex[1]
            old == Traverse(last.pre[idx + 1].Tree)
            low == {kv \in old : Len(kv.Key) > 0 /\ kv.Key[1] < 128}
        IN  /\ Len(Shards) = Len(last.pre) + 1
            /\ Traverse(Shards[idx + 1].Tree) = low
            /\ Traverse(Shards[idx + 2].Tree) = old \ low
            /\ \A j \in 0..(Len(last.pre) - 1) :
                  /\ j < idx => Shards[j + 1] = last.pre[j + 1]
                  /\ j > idx => Shards[j + 2] = last.pre[j + 1]

-----------------------------------------------------------------------------
(* Two tries built from the same pairs in two orders.  trie is the first    *)
(* trie; last holds the second one and the pairs each has still to insert.  *)

\* largest number of pairs inserted
MaxPairs == 3

\* the orders in which the elements of S can be listed
Orders(S) ==
    {f \in [1..Cardinality(S) -> S] : \A i, j \in 1..Cardinality(S) : f[i] = f[j] => i = j}

\* sets of pairs with pairwise distinct keys
PairSets ==
    UNION {[ks -> TrieValues] : ks \in {K \in SUBSET TrieKeys : Cardinality(K) <= MaxPairs}}

PairsOf(vals, order) == [i \in 1..Len(order) |-> [Key |-> order[i], Value |-> vals[order[i]]]]

InitOrders ==
    /\ \E vals \in PairSets :
          \E orderA \in Orders(DOMAIN vals), orderB \in Orders(DOMAIN vals) :
             last = [call |-> "orders", second |-> NewNode,
                     orderA |-> orderA, orderB |-> orderB,
                     restA |-> PairsOf(vals, orderA), restB |-> PairsOf(vals, orderB)]
    /\ trie = NewNode /\ trieOps = 0
    /\ Shards = <<>> /\ mu = [w |-> NoTask, r |-> {}] /\ panicked = FALSE /\ mgrOps = 0
    /\ ConcIdle /\ SchedIdle /\ cross = <<>>

\* Insert of the next pair into the first trie
InsertFirst ==
    /\ last.restA # <<>>
    /\ trie' = Insert(trie, Head(last.restA).Key, Head(last.restA).Value)
    /\ trieOps' = trieOps + 1
    /\ last' = [last EXCEPT !.restA = Tail(@)]
    /\ UNCHANGED <<Shards, mu, panicked, mgrOps, concVars, schedVars, cross>>

\* Insert of the next pair into the second trie, once the first is built
InsertSecond ==
    /\ last.restA = <<>> /\ last.restB # <<>>
    /\ last' = [last EXCEPT !.second = Insert(@, Head(last.restB).Key, Head(last.restB).Value),
                            !.restB = Tail(@)]
    /\ UNCHANGED <<trieVars, Shards, mu, panicked, mgrOps, concVars, schedVars, cross>>

NextOrders == InsertFirst \/ InsertSecond

SpecOrders == InitOrders /\ [][NextOrders]_vars

\* C13: when the same pairs, with pairwise distinct keys, have been inserted
\* into two empty tries in two orders, the two root hashes are equal.
C13_InsertOrderIrrelevant ==
    (last.restA = <<>> /\ last.restB = <<>>) => RootHash(trie) = RootHash(last.second)

\* three pairs have been inserted in two different orders
C13_Witness ==
    /\ last.restA = <<>> /\ last.restB = <<>>
    /\ Len(last.orderA) = 3 /\ last.orderA # last.orderB
    /\ RootHash(trie) # <<>>

-----------------------------------------------------------------------------
(* Cached hashes *)

\* every node of the tree caches the content hash of its value and children
HashesCurrent(t) == \A p \in DOMAIN t : t[p].hash = ContentHash(t, p)

\* C14: every node of every shard's trie, the root of a fresh empty trie and
\* the nodes made by split and merge included, caches the hash of its current
\* value and of its children's cached hashes in ascending edge order; an empty
\* trie's RootHash is the hash over the empty input.
C14_CachedHashesCurrent ==
    \A i \in 1..Len(Shards) : HashesCurrent(Shards[i].Tree)

-----------------------------------------------------------------------------
(* The collection is never emptied *)

\* C15: no call of ApplyTx, Rebalance or RebalanceWithProof, with any
\* thresholds, takes a collection of at least one shard to an empty one, and
\* a merge is only performed on a collection of at least two shards.
C15_NeverEmptied ==
    [][(Len(Shards) >= 1) =>
          /\ Len(Shards') >= 1
          /\ (last'.call \in {"RebalanceWithProof", "Rebalance"}
                  /\ last'.proof.Operation = "merge") => Len(last'.pre) >= 2]_vars

\* a merge has taken a collection of two shards to one shard
C15_Witness ==
    /\ last.call \in {"RebalanceWithProof", "Rebalance"}
    /\ last.proof.Operation = "merge"
    /\ Len(last.pre) = 2 /\ Len(Shards) = 1

-----------------------------------------------------------------------------
(* RebalanceWithProof on an empty or one-shard manager *)

\* C16: RebalanceWithProof on a manager of zero shards or of one shard, with
\* any thresholds, does not fail with an out-of-range access; on zero shards
\* it reports none and leaves the collection as it was, and on one shard it
\* never merges.
C16_SmallManagerNoCrash ==
    /\ last.call = "RebalanceWithProof panicked" => Len(last.pre) > 1
    /\ (last.call = "RebalanceWithProof" /\ Len(last.pre) = 0) =>
           (last.proof.Operation = "none" /\ Shards = last.pre)
    /\ (last.call = "RebalanceWithProof" /\ Len(last.pre) = 1) =>
           last.proof.Operation # "merge"

-----------------------------------------------------------------------------
(* package proof: CompressProof and DecompressProof.  last holds the proof   *)
(* p, the compressed proof cp built so far, and the decompressed proof dp.  *)

\* longest proof
MaxSteps == 2

SibLabels == {1, 2, 128}

SibHashValues == {Sha256(<<>>), Sha256(<<0, 5>>)}

SibMaps == UNION {[ls -> SibHashValues] : ls \in SUBSET SibLabels}

Proofs ==
    {[Value |-> v, Steps |-> st] :
        v \in TrieValues, st \in UNION {[1..n -> SibMaps] : n \in 0..MaxSteps}}

\* the sort with the comparison left out
SwapSortNone(keys, i, j) == keys

\* the two nested loops of the "simple sort", positions from 1
RECURSIVE SwapSort(_, _, _)
SwapSort(keys, i, j) ==
    IF i > Len(keys) THEN keys
    ELSE IF j > Len(keys) THEN SwapSort(keys, i + 1, i + 2)
    ELSE IF keys[j] < keys[i]
    THEN SwapSort([keys EXCEPT ![i] = keys[j], ![j] = keys[i]], i, j + 1)
    ELSE SwapSort(keys, i, j + 1)

\* one iteration of CompressProof's loop: the keys of sibMap in the order the
\* map range yields them, sorted, and the hashes copied in that order
CompressStep(sibMap, order) ==
    LET keys == SwapSort(order, 1, 2)
    IN  [keys |-> keys, hashes |-> [j \in 1..Len(keys) |-> CopyBytes(sibMap[keys[j]])]]

\* DecompressProof
DecompressProof(cp) ==
    [Value |-> CopyBytes(cp.Value),
     Steps |-> [i \in 1..Len(cp.SibKeys) |->
                  [k \in {cp.SibKeys[i][j] : j \in 1..Len(cp.SibKeys[i])} |->
                      LET j == CHOOSE jj \in 1..Len(cp.SibKeys[i]) :
                                   /\ cp.SibKeys[i][jj] = k
                                   /\ \A j2 \in (jj + 1)..Len(cp.SibKeys[i]) :
                                         cp.SibKeys[i][j2] # k
                      IN  CopyBytes(cp.SibHashes[i][j])]]]

NoCompressed == [Value |-> NilBytes, SibKeys |-> <<>>, SibHashes |-> <<>>]

InitCompress ==
    /\ \E p \in Proofs :
          last = [call |-> "proof", p |-> p, cp |-> NoCompressed,
                  dp |-> [Value |-> NilBytes, Steps |-> <<>>]]
    /\ Shards = <<>> /\ mu = [w |-> NoTask, r |-> {}] /\ panicked = FALSE /\ mgrOps = 0
    /\ TrieIdle /\ ConcIdle /\ SchedIdle /\ cross = <<>>

\* CompressProof up to its loop: the value is copied
CompressBegin ==
    /\ last.call = "proof"
    /\ last' = [last EXCEPT !.call = "compressing", !.cp.Value = CopyBytes(last.p.Value)]
    /\ UNCHANGED <<trieVars, Shards, mu, panicked, mgrOps, concVars, schedVars, cross>>

\* one iteration of the loop over p.Steps; after the last one, the return
CompressLoop ==
    /\ last.call = "compressing"
    /\ IF Len(last.cp.SibKeys) = Len(last.p.Steps)
       THEN last' = [last EXCEPT !.call = "compressed"]
       ELSE LET sibMap == last.p.Steps[Len(last.cp.SibKeys) + 1]
            IN  \E order \in Orders(DOMAIN sibMap) :
                   LET step == CompressStep(sibMap, order)
                   IN  last' = [last EXCEPT !.cp.SibKeys = Append(@, step.keys),
                                            !.cp.SibHashes = Append(@, step.hashes)]
    /\ UNCHANGED <<trieVars, Shards, mu, panicked, mgrOps, concVars, schedVars, cross>>

DecompressCall ==
    /\ last.call = "compressed"
    /\ last' = [last EXCEPT !.call = "decompressed", !.dp = DecompressProof(last.cp)]
    /\ UNCHANGED <<trieVars, Shards, mu, panicked, mgrOps, concVars, schedVars, cross>>

NextCompress == CompressBegin \/ CompressLoop \/ DecompressCall

SpecCompress == InitCompress /\ [][NextCompress]_vars

\* the bytes of a slice: a nil slice and an empty slice both hold none
Content(b) == IF b = NilBytes THEN <<>> ELSE b

Ascending(keys) == \A i \in 1..(Len(keys) - 1) : keys[i] < keys[i + 1]

\* C17: DecompressProof(CompressProof(p)) has the bytes of p's value, as many
\* steps as p and at every depth the sibling labels of p with the bytes of
\* their hashes; every key list of CompressProof(p) is sorted ascending and
\* as long as the hash list of its depth.
C17_CompressRoundTrip ==
    /\ last.call \in {"compressed", "decompressed"} =>
          /\ Len(last.cp.SibKeys) = Len(last.p.Steps)
          /\ Len(last.cp.SibHashes) = Len(last.p.Steps)
          /\ \A i \in 1..Len(last.cp.SibKeys) :
                /\ Ascending(last.cp.SibKeys[i])
                /\ Len(last.cp.SibKeys[i]) = Len(last.cp.SibHashes[i])
    /\ last.call = "decompressed" =>
          /\ Content(last.dp.Value) = Content(last.p.Value)
          /\ Len(last.dp.Steps) = Len(last.p.Steps)
          /\ \A i \in 1..Len(last.p.Steps) :
                /\ DOMAIN last.dp.Steps[i] = DOMAIN last.p.Steps[i]
                /\ \A k \in DOMAIN last.p.Steps[i] :
                      Content(last.dp.Steps[i][k]) = Content(last.p.Steps[i][k])

\* a proof of two steps, one of them with three siblings, has made the round trip
C17_Witness ==
    /\ last.call = "decompressed"
    /\ Len(last.p.Steps) = 2
    /\ \E i \in 1..2 : DOMAIN last.p.Steps[i] = SibLabels
    /\ last.p.Value = <<5>>

-----------------------------------------------------------------------------
(* The active window of a tick *)

\* the indices the window of a tick must hold
RefWindow ==
    {k \in 0..(sched.total - 1) :
        \E i \in 0..(cfg.activeCount - 1) : k = (cursor + i) % sched.total}

\* the shards (0-based) a step has changed
ChangedShards == {j \in 0..(Len(Shards) - 1) : Len(Shards') = Len(Shards) /\ Shards'[j + 1] # Shards[j + 1]}

\* C18: during a tick the active set is {(cursor + i) mod total : 0 <= i <
\* activeCount} for the shard count total read at the start of the tick; the
\* loop's step for a received transaction writes it to its routed shard, and
\* to no other, when that shard is in the set, and writes nothing when it is not.
C18_ActiveWindow ==
    /\ [](sched.pc \in {"snap", "loop", "route", "resend"} =>
             (sched.active = RefWindow /\ sched.total = Len(Shards)))
    /\ [][(sched.pc = "route" /\ sched' # sched) =>
             LET idx == shardIndex(sched.tx.Key, sched.total)
             IN  IF idx \in RefWindow
                 THEN /\ ChangedShards = {idx}
                      /\ Shards'[idx + 1] = Apply(Shards[idx + 1], sched.tx.Key, sched.tx.Value)
                      /\ appliedLog' = Append(appliedLog, [tx |-> sched.tx, shard |-> idx])
                 ELSE Shards' = Shards /\ appliedLog' = appliedLog]_vars

\* a tick whose window has wrapped around, {2, 0} of three shards, has
\* applied a transaction
C18_Witness ==
    /\ sched.pc = "loop" /\ sched.i >= 1
    /\ sched.total = 3 /\ sched.active = {0, 2} /\ cursor = 2
    /\ Len(appliedLog) >= 1 /\ appliedLog[Len(appliedLog)].shard = 0
    /\ ~sched.requeued

-----------------------------------------------------------------------------
(* The drain of a tick *)

\* C19: within a tick the loop receives the transactions that were in the
\* queue when the count n was taken, in their order and each once, and no
\* other: what producers submit and what the loop itself sends back during
\* the drain is not received before the next tick; when the loop ends it has
\* received exactly those n transactions.
C19_DrainsSnapshotOnly ==
    sched.pc \in {"loop", "route", "resend"} =>
        /\ Len(sched.drained) <= Len(sched.snapshot)
        /\ sched.drained = SubSeq(sched.snapshot, 1, Len(sched.drained))
        /\ \A a, b \in 1..Len(sched.drained) : sched.drained[a] = sched.drained[b] => a = b
        /\ (sched.pc = "loop" /\ sched.i >= sched.n) => sched.drained = sched.snapshot

\* a drain has ended during which a producer submitted a transaction and the
\* loop sent one back, both still in the queue
C19_Witness ==
    /\ sched.pc = "loop" /\ sched.i >= sched.n /\ sched.n >= 1
    /\ \E k \in 1..Len(txQueue) :
          /\ \A j \in 1..Len(sched.snapshot) : sched.snapshot[j] # txQueue[k]
    /\ \E k \in 1..Len(txQueue) :
          /\ \E j \in 1..Len(sched.drained) : sched.drained[j] = txQueue[k]

-----------------------------------------------------------------------------
(* Routing and placement *)

\* the shards (0-based) whose trie stores a value under key
Holders(shards, key) ==
    {j \in 0..(Len(shards) - 1) :
        key \in DOMAIN shards[j + 1].Tree /\ shards[j + 1].Tree[key].value # NilBytes}

\* C20: ApplyTx stores the value in the shard shardIndex selects for the
\* current shard count and touches no other shard, so a copy of the key that
\* a split or merge has left in another shard stays there: that every stored
\* key is in the shard its routing selects is not an invariant, and after an
\* ApplyTx a key can be stored in two shards at once (C20_Witness).
C20_ApplyTxWritesRoutedShardOnly ==
    last.call = "ApplyTx" =>
        /\ last.idx = shardIndex(last.key, Len(last.pre))
        /\ Len(Shards) = Len(last.pre)
        /\ last.key \in DOMAIN Shards[last.idx + 1].Tree
        /\ Shards[last.idx + 1].Tree[last.key].value = last.value
        /\ \A j \in 0..(Len(Shards) - 1) : j # last.idx => Shards[j + 1] = last.pre[j + 1]

\* before an ApplyTx the key was stored only in a shard its routing does not
\* select; after it the key is stored in two shards
C20_Witness ==
    /\ last.call = "ApplyTx"
    /\ Holders(last.pre, last.key) # {}
    /\ last.idx \notin Holders(last.pre, last.key)
    /\ Cardinality(Holders(Shards, last.key)) = 2


-----------------------------------------------------------------------------
(* The cursor of the scheduler *)

\* C21: whenever a tick has computed its active window (and at every later
\* point of that tick before the cursor moves on) the cursor is an index of a
\* shard, 0 <= cursor < shard count, for the shard count the tick has read;
\* this is to hold also on the tick that follows a merge or a split.
C21_CursorInRange ==
    sched.pc \in {"snap", "loop", "route", "resend"} =>
        (0 <= cursor /\ cursor < sched.total)


-----------------------------------------------------------------------------
(* The order of writes to one key *)

\* the place of an applied transaction in the order of application
AppliedAt(tx) == CHOOSE k \in 1..Len(appliedLog) : appliedLog[k].tx = tx

\* pairs (a, b) of transactions of one producer, a submitted before b: the
\* Submit of a has returned before the Submit of b starts
SubmittedInOrder ==
    {pair \in submitted \X submitted :
        \E p \in Producers :
            LET w == Workload(cfg.txs, p)
            IN  \E i, j \in 1..Len(w) : i < j /\ w[i] = pair[1] /\ w[j] = pair[2]}

\* C22: writes to one key are applied in submission order: when a producer
\* has submitted (k, v1) and then (k, v2) and the scheduler has applied both,
\* it applied (k, v1) first, whatever the interleaving of producers, ticks
\* and re-enqueues, so that the value left for k is v2.
C22_SameKeyInSubmissionOrder ==
    \A pair \in SubmittedInOrder :
        (pair[1].Key = pair[2].Key /\ Applied(pair[1]) = 1 /\ Applied(pair[2]) = 1)
            => AppliedAt(pair[1]) < AppliedAt(pair[2])

====
